---- MODULE Spec2Model ----
(***************************************************************************)
(* rogers_cc_to_monarch.py: conversion of Rogers Bank CSV exports into one *)
(* Monarch Money import CSV.  Strings are sequences of one-character       *)
(* strings, so that trimming, case folding, regular-expression matches and *)
(* number/date parsing are computed character by character as the Python   *)
(* code computes them.                                                     *)
(***************************************************************************)
EXTENDS Integers, Sequences, FiniteSets, TLC

\* Python's None: a value distinct from every string of the model.
None == <<"<None>">>

(***************************************************************************)
(* Bounds of the model                                                     *)
(***************************************************************************)
\* longest raw Amount cell enumerated in full for the row normalizer
MaxAmountLen == 3
\* longest raw Card Number cell enumerated for the row normalizer
MaxCardLen == 5
\* most input files of one run
MaxFiles == 2
\* most data rows over all the input files of one run
MaxRows == 2

(***************************************************************************)
(* Characters and str methods                                              *)
(***************************************************************************)
UpperLetters == <<"A","B","C","D","E","F","G","H","I","J","K","L","M",
                  "N","O","P","Q","R","S","T","U","V","W","X","Y","Z">>
LowerLetters == <<"a","b","c","d","e","f","g","h","i","j","k","l","m",
                  "n","o","p","q","r","s","t","u","v","w","x","y","z">>
DigitChars == <<"0","1","2","3","4","5","6","7","8","9">>

Range(f) == { f[i] : i \in DOMAIN f }

Uppers == Range(UpperLetters)
Digits == Range(DigitChars)
\* \w of the re module: letters, digits and the underscore
WordChars == Uppers \cup Range(LowerLetters) \cup Digits \cup {"_"}

IsDigit(c) == c \in Digits
IsSpace(c) == c = " "
IsWordChar(c) == c \in WordChars

DigitValueOf == [c \in Digits |-> (CHOOSE i \in DOMAIN DigitChars : DigitChars[i] = c) - 1]
DigitValue(c) == DigitValueOf[c]

LowerOf ==
    [c \in Uppers |-> LowerLetters[CHOOSE i \in DOMAIN UpperLetters : UpperLetters[i] = c]]
LowerChar(c) == IF c \in Uppers THEN LowerOf[c] ELSE c

\* str.lower()
Lower(s) == [i \in DOMAIN s |-> LowerChar(s[i])]

RECURSIVE LStrip(_)
LStrip(s) == IF s # <<>> /\ IsSpace(Head(s)) THEN LStrip(Tail(s)) ELSE s

RECURSIVE RStrip(_)
RStrip(s) == IF s # <<>> /\ IsSpace(s[Len(s)]) THEN RStrip(SubSeq(s, 1, Len(s) - 1)) ELSE s

\* str.strip()
Strip(s) == RStrip(LStrip(s))

\* s without the characters of chars (str.replace(c, ""))
RECURSIVE Remove(_, _)
Remove(s, chars) ==
    IF s = <<>> THEN <<>>
    ELSE (IF Head(s) \in chars THEN <<>> ELSE <<Head(s)>>) \o Remove(Tail(s), chars)

\* the characters of s that are in chars (re.sub(r"[^...]", "", s))
RECURSIVE Keep(_, _)
Keep(s, chars) ==
    IF s = <<>> THEN <<>>
    ELSE (IF Head(s) \in chars THEN <<Head(s)>> ELSE <<>>) \o Keep(Tail(s), chars)

\* str.split(sep) for a one-character separator
RECURSIVE Split(_, _)
Split(s, sep) ==
    IF \A i \in DOMAIN s : s[i] # sep THEN <<s>>
    ELSE LET k == CHOOSE i \in DOMAIN s : s[i] = sep /\ \A j \in 1..(i - 1) : s[j] # sep
         IN  <<SubSeq(s, 1, k - 1)>> \o Split(SubSeq(s, k + 1, Len(s)), sep)

IsDigits(s) == s # <<>> /\ \A i \in DOMAIN s : IsDigit(s[i])

\* the number a string of digits denotes
RECURSIVE ToNat(_)
ToNat(s) == IF s = <<>> THEN 0 ELSE 10 * ToNat(SubSeq(s, 1, Len(s) - 1)) + DigitValue(s[Len(s)])

\* the decimal digits of a natural number
RECURSIVE NatStr(_)
NatStr(n) == IF n < 10 THEN <<DigitChars[n + 1]>> ELSE NatStr(n \div 10) \o <<DigitChars[(n % 10) + 1]>>

RECURSIVE Pow10(_)
Pow10(k) == IF k = 0 THEN 1 ELSE 10 * Pow10(k - 1)

\* ", ".join(parts)
RECURSIVE JoinComma(_)
JoinComma(parts) ==
    IF parts = <<>> THEN <<>>
    ELSE IF Len(parts) = 1 THEN parts[1]
    ELSE parts[1] \o <<",", " ">> \o JoinComma(Tail(parts))

\* [p for p in parts if p]
RECURSIVE NonEmpty(_)
NonEmpty(parts) ==
    IF parts = <<>> THEN <<>>
    ELSE (IF Head(parts) # <<>> THEN <<Head(parts)>> ELSE <<>>) \o NonEmpty(Tail(parts))

(***************************************************************************)
(* Configuration                                                           *)
(***************************************************************************)
H_Date == <<"D","a","t","e">>
H_Amount == <<"A","m","o","u","n","t">>
H_MerchantName == <<"M","e","r","c","h","a","n","t"," ","N","a","m","e">>
H_CardNumber == <<"C","a","r","d"," ","N","u","m","b","e","r">>
H_MerchantCategoryDescription == <<"M","e","r","c","h","a","n","t"," ","C","a","t","e","g","o","r","y"," ","D","e","s","c","r","i","p","t","i","o","n">>
H_MerchantCity == <<"M","e","r","c","h","a","n","t"," ","C","i","t","y">>
H_MerchantStateOrProvince == <<"M","e","r","c","h","a","n","t"," ","S","t","a","t","e"," ","o","r"," ","P","r","o","v","i","n","c","e">>
H_MerchantCountryCode == <<"M","e","r","c","h","a","n","t"," ","C","o","u","n","t","r","y"," ","C","o","d","e">>
H_TransactionDescription == <<"T","r","a","n","s","a","c","t","i","o","n"," ","d","e","s","c","r","i","p","t","i","o","n">>
H_Description == <<"D","e","s","c","r","i","p","t","i","o","n">>
H_Merchant == <<"M","e","r","c","h","a","n","t">>
H_TransactionCategory == <<"T","r","a","n","s","a","c","t","i","o","n"," ","c","a","t","e","g","o","r","y">>
H_Category == <<"C","a","t","e","g","o","r","y">>

PORTAL_ACCOUNT_LABEL == <<"R","o","g","e","r","s"," ","M","a","s","t","e","r","c","a","r","d">>

STMT_REQUIRED ==
    <<H_Date, H_Amount, H_MerchantName, H_CardNumber, H_MerchantCategoryDescription,
      H_MerchantCity, H_MerchantStateOrProvince, H_MerchantCountryCode>>

PORTAL_REQUIRED_MIN == <<H_Date, H_Amount>>
PORTAL_DESC_KEYS == <<H_TransactionDescription, H_Description, H_Merchant, H_MerchantName>>
PORTAL_CAT_KEYS == <<H_TransactionCategory, H_Category>>

Uncategorized == <<"U","n","c","a","t","e","g","o","r","i","z","e","d">>
CreditCardPayment == <<"C","r","e","d","i","t"," ","C","a","r","d"," ","P","a","y","m","e","n","t">>
CardPrefix == <<"C","a","r","d"," ","*","*","*","*">>
XXXX == <<"X","X","X","X">>

(***************************************************************************)
(* parse_date_str: datetime.strptime under six formats, the first that     *)
(* matches wins.  A date is <<year, month, day>>.                          *)
(***************************************************************************)
MonthNames ==
    <<<<"j","a","n","u","a","r","y">>,
      <<"f","e","b","r","u","a","r","y">>,
      <<"m","a","r","c","h">>,
      <<"a","p","r","i","l">>,
      <<"m","a","y">>,
      <<"j","u","n","e">>,
      <<"j","u","l","y">>,
      <<"a","u","g","u","s","t">>,
      <<"s","e","p","t","e","m","b","e","r">>,
      <<"o","c","t","o","b","e","r">>,
      <<"n","o","v","e","m","b","e","r">>,
      <<"d","e","c","e","m","b","e","r">>>>
MonthAbbrs ==
    <<<<"j","a","n">>, <<"f","e","b">>, <<"m","a","r">>, <<"a","p","r">>, <<"m","a","y">>, <<"j","u","n">>, <<"j","u","l">>, <<"a","u","g">>, <<"s","e","p">>, <<"o","c","t">>, <<"n","o","v">>, <<"d","e","c">>>>

IsLeap(y) == (y % 4 = 0 /\ y % 100 # 0) \/ y % 400 = 0

DaysInMonth(y, m) ==
    IF m = 2 THEN (IF IsLeap(y) THEN 29 ELSE 28)
    ELSE IF m \in {4, 6, 9, 11} THEN 30 ELSE 31

\* %Y: exactly four digits
IsYearField(f) == Len(f) = 4 /\ IsDigits(f)
\* %m: 1[0-2]|0[1-9]|[1-9]
IsMonthField(f) == Len(f) \in {1, 2} /\ IsDigits(f) /\ ToNat(f) \in 1..12
\* %d: 3[0-1]|[1-2]\d|0[1-9]|[1-9]| [1-9]
IsDayField(f) ==
    \/ Len(f) \in {1, 2} /\ IsDigits(f) /\ ToNat(f) \in 1..31
    \/ Len(f) = 2 /\ f[1] = " " /\ IsDigit(f[2]) /\ f[2] # "0"
DayValue(f) == IF f[1] = " " THEN ToNat(Tail(f)) ELSE ToNat(f)

\* datetime(y, m, d) raises ValueError for a day the month does not have, and for year 0
MakeDate(y, m, d) == IF y >= 1 /\ d <= DaysInMonth(y, m) THEN <<y, m, d>> ELSE None

\* three numeric fields joined by sep; yi, mi, di are the places of year, month and day
NumericFormat(s, sep, yi, mi, di) ==
    LET f == Split(s, sep)
    IN  IF Len(f) = 3 /\ IsYearField(f[yi]) /\ IsMonthField(f[mi]) /\ IsDayField(f[di])
        THEN MakeDate(ToNat(f[yi]), ToNat(f[mi]), DayValue(f[di]))
        ELSE None

\* "%b %d, %Y" (names == MonthAbbrs) and "%B %d, %Y" (names == MonthNames); a blank of
\* the format matches one or more blanks, month names match in any case
TextFormat(s, names) ==
    LET f == NonEmpty(Split(s, " "))
    IN  IF /\ s # <<>> /\ ~IsSpace(s[1]) /\ ~IsSpace(s[Len(s)])
           /\ Len(f) = 3
           /\ Lower(f[1]) \in Range(names)
           /\ Len(f[2]) >= 2 /\ f[2][Len(f[2])] = ","
           /\ IsDayField(SubSeq(f[2], 1, Len(f[2]) - 1))
           /\ SubSeq(f[2], 1, Len(f[2]) - 1)[1] # " "
           /\ IsYearField(f[3])
        THEN MakeDate(ToNat(f[3]),
                      CHOOSE i \in DOMAIN names : names[i] = Lower(f[1]),
                      DayValue(SubSeq(f[2], 1, Len(f[2]) - 1)))
        ELSE None

\* the value of the first format in the list that parses s, else None
RECURSIVE FirstParsed(_)
FirstParsed(tries) ==
    IF tries = <<>> THEN None
    ELSE IF Head(tries) # None THEN Head(tries) ELSE FirstParsed(Tail(tries))

parse_date_str(s) ==
    IF s = None \/ s = <<>> THEN None
    ELSE LET t == Strip(s)
         IN  FirstParsed(<<NumericFormat(t, "-", 1, 2, 3),
                           NumericFormat(t, "/", 3, 1, 2),
                           NumericFormat(t, "/", 1, 2, 3),
                           NumericFormat(t, "/", 3, 2, 1),
                           TextFormat(t, MonthAbbrs),
                           TextFormat(t, MonthNames)>>)

\* date < date
DateLess(a, b) ==
    \/ a[1] < b[1]
    \/ a[1] = b[1] /\ a[2] < b[2]
    \/ a[1] = b[1] /\ a[2] = b[2] /\ a[3] < b[3]

(***************************************************************************)
(* clean_amount.  A float is [neg, num, scale]: sign bit and the decimal   *)
(* magnitude num / 10^scale (so -0.0 is a value of its own, as in Python). *)
(***************************************************************************)
Float(neg, num, scale) == [neg |-> neg, num |-> num, scale |-> scale]

\* x < 0
IsNegative(x) == x.neg /\ x.num > 0
\* abs(x)
Abs(x) == Float(FALSE, x.num, x.scale)
\* -x
Neg(x) == Float(~x.neg, x.num, x.scale)

\* re.search(r"\bCR\b", s, flags=re.IGNORECASE)
HasCreditMarker(s) ==
    \E i \in 1..(Len(s) - 1) :
        /\ LowerChar(s[i]) = "c"
        /\ LowerChar(s[i + 1]) = "r"
        /\ (i = 1 \/ ~IsWordChar(s[i - 1]))
        /\ (i + 1 = Len(s) \/ ~IsWordChar(s[i + 2]))

\* s.startswith("(") and s.endswith(")")
IsParenthesized(s) == s # <<>> /\ s[1] = "(" /\ s[Len(s)] = ")"

Parens == {"(", ")"}
\* the characters re.sub(r"[^\d\.\-]", "", ...) keeps
NumChars == Digits \cup {".", "-"}

\* whether float(t) accepts t, a string of digits, "." and "-": an optional sign, then
\* digits with at most one point and at least one digit
IsFloatLiteral(t) ==
    LET body == IF t # <<>> /\ t[1] = "-" THEN Tail(t) ELSE t
    IN  /\ \A i \in DOMAIN body : body[i] # "-"
        /\ Cardinality({i \in DOMAIN body : body[i] = "."}) <= 1
        /\ \E i \in DOMAIN body : IsDigit(body[i])

\* float(t) for a literal float() accepts
ParseFloat(t) ==
    LET body == IF t[1] = "-" THEN Tail(t) ELSE t
        parts == Split(body, ".")
        frac == IF Len(parts) = 2 THEN parts[2] ELSE <<>>
    IN  Float(t[1] = "-", ToNat(parts[1] \o frac), Len(frac))

\* lines 85-88: the three negativity signals of the stripped string s
SignalsOf(s, s_no_paren) ==
    [credit_marker |-> HasCreditMarker(s),
     neg_paren |-> IsParenthesized(s),
     explicit_neg |-> s_no_paren # <<>> /\ s_no_paren[1] = "-"]

AmountSignals(raw) == SignalsOf(Strip(raw), Remove(Strip(raw), Parens))

\* lines 90-93, given the string s_num and whether a signal fired; [raised |-> TRUE]
\* when float() raises ValueError
SignedAmount(s_num, is_negative) ==
    IF s_num \in {<<>>, <<"-">>, <<".">>}
    THEN [raised |-> FALSE, val |-> Float(FALSE, 0, 0)]
    ELSE IF ~IsFloatLiteral(s_num)
    THEN [raised |-> TRUE, val |-> Float(FALSE, 0, 0)]
    ELSE [raised |-> FALSE,
          val |-> IF is_negative THEN Neg(Abs(ParseFloat(s_num))) ELSE Abs(ParseFloat(s_num))]

AnySignal(sig) == sig.neg_paren \/ sig.explicit_neg \/ sig.credit_marker

clean_amount(raw) ==
    IF raw = None THEN [raised |-> FALSE, val |-> Float(FALSE, 0, 0)]
    ELSE SignedAmount(Keep(Remove(Strip(raw), Parens), NumChars), AnySignal(AmountSignals(raw)))

\* f"{x:.2f}": the sign, then the magnitude rounded to cents.  An exact half cent is
\* rounded by the binary value of the float; no amount enumerated here is one (its
\* digits are those of AmountChars, none a "5"), and this operator rounds it to even.
FormatAmount(x) ==
    LET p == Pow10(x.scale)
        q == (x.num * 100) \div p
        r == (x.num * 100) % p
        cents == IF 2 * r > p \/ (2 * r = p /\ q % 2 = 1) THEN q + 1 ELSE q
    IN  (IF x.neg THEN <<"-">> ELSE <<>>)
        \o NatStr(cents \div 100) \o <<".">>
        \o <<DigitChars[((cents \div 10) % 10) + 1], DigitChars[(cents % 10) + 1]>>

\* last4 with the pattern not anchored at the end: the first run of four digits
last4_Unanchored(masked) ==
    LET s == Strip(IF masked = None THEN <<>> ELSE masked)
        runs == { i \in 1..(Len(s) - 3) : IsDigits(SubSeq(s, i, i + 3)) }
    IN  IF runs # {}
        THEN SubSeq(s, CHOOSE i \in runs : \A j \in runs : i <= j,
                       (CHOOSE i \in runs : \A j \in runs : i <= j) + 3)
        ELSE XXXX

\* last4(masked): re.search(r"(\d{4})\s*$", (masked or "").strip())
last4(masked) ==
    LET s == Strip(IF masked = None THEN <<>> ELSE masked)
    IN  IF Len(s) >= 4 /\ IsDigits(SubSeq(s, Len(s) - 3, Len(s)))
        THEN SubSeq(s, Len(s) - 3, Len(s))
        ELSE XXXX

(***************************************************************************)
(* Headers and rows.  A row (a dict of csv.DictReader) is a sequence of    *)
(* [key, val] in insertion order, its keys distinct.                       *)
(***************************************************************************)
\* (h or "").strip().lower()
NormHeader(h) == Lower(Strip(IF h = None THEN <<>> ELSE h))

headers_lower_set(headers) == { NormHeader(headers[i]) : i \in DOMAIN headers }

\* headers_lower_map(headers).get(k): the last header that normalizes to k, else None
headers_lower_map(headers, k) ==
    IF \E i \in DOMAIN headers : NormHeader(headers[i]) = k
    THEN headers[CHOOSE i \in DOMAIN headers :
                    /\ NormHeader(headers[i]) = k
                    /\ \A j \in DOMAIN headers : NormHeader(headers[j]) = k => j <= i]
    ELSE None

RowKeys(row) == [i \in DOMAIN row |-> row[i].key]
HasKey(row, k) == \E i \in DOMAIN row : row[i].key = k
\* row.get(k)
RowGet(row, k) ==
    IF HasKey(row, k) THEN row[CHOOSE i \in DOMAIN row : row[i].key = k].val ELSE None

\* the second loop of get_ci: the case-insensitive lookup
RECURSIVE GetCiFolded(_, _)
GetCiFolded(row, candidates) ==
    IF candidates = <<>> THEN <<>>
    ELSE LET key == headers_lower_map(RowKeys(row), Lower(Head(candidates)))
         IN  IF key # None /\ RowGet(row, key) # None
             THEN RowGet(row, key)
             ELSE GetCiFolded(row, Tail(candidates))

\* the first loop of get_ci: the exact-case fast path over every candidate
RECURSIVE GetCiExact(_, _, _)
GetCiExact(row, candidates, all) ==
    IF candidates = <<>> THEN GetCiFolded(row, all)
    ELSE IF HasKey(row, Head(candidates)) /\ RowGet(row, Head(candidates)) # None
    THEN RowGet(row, Head(candidates))
    ELSE GetCiExact(row, Tail(candidates), all)

get_ci(row, candidates) == GetCiExact(row, candidates, candidates)

\* the dict csv.DictReader builds from the field names and one line's cells:
\* dict(zip(fieldnames, cells)), then None for the fields the line is short of, and
\* the surplus cells under the key None
RECURSIVE DictSet(_, _, _)
DictSet(row, k, v) ==
    IF row = <<>> THEN << [key |-> k, val |-> v] >>
    ELSE IF Head(row).key = k THEN << [key |-> k, val |-> v] >> \o Tail(row)
    ELSE << Head(row) >> \o DictSet(Tail(row), k, v)

RECURSIVE DictRowFrom(_, _, _, _)
DictRowFrom(fieldnames, cells, i, row) ==
    IF i > Len(fieldnames)
    THEN IF Len(cells) > Len(fieldnames)
         THEN DictSet(row, None, SubSeq(cells, Len(fieldnames) + 1, Len(cells)))
         ELSE row
    ELSE DictRowFrom(fieldnames, cells, i + 1,
                     DictSet(row, fieldnames[i], IF i <= Len(cells) THEN cells[i] ELSE None))

DictRow(fieldnames, cells) == DictRowFrom(fieldnames, cells, 1, <<>>)

\* list(reader): one dict per line, the blank lines skipped
RECURSIVE DictRows(_, _)
DictRows(fieldnames, lines) ==
    IF lines = <<>> THEN <<>>
    ELSE (IF Head(lines) = <<>> THEN <<>> ELSE << DictRow(fieldnames, Head(lines)) >>)
         \o DictRows(fieldnames, Tail(lines))

(***************************************************************************)
(* detect_format                                                           *)
(***************************************************************************)
NoFormat == "None"

\* {s.lower() for s in keys}
LowerSet(keys) == { Lower(keys[i]) : i \in DOMAIN keys }

\* Classify with the Portal signature tested before the Statement signature
Classify_PortalFirst(hl) ==
    IF LowerSet(PORTAL_REQUIRED_MIN) \subseteq hl /\ LowerSet(PORTAL_DESC_KEYS) \cap hl # {}
    THEN "portal"
    ELSE IF LowerSet(STMT_REQUIRED) \subseteq hl THEN "statement"
    ELSE NoFormat

\* lines 118-124, given hl
Classify(hl) ==
    IF LowerSet(STMT_REQUIRED) \subseteq hl THEN "statement"
    ELSE IF LowerSet(PORTAL_REQUIRED_MIN) \subseteq hl
            /\ LowerSet(PORTAL_DESC_KEYS) \cap hl # {}
    THEN "portal"
    ELSE NoFormat

detect_format(headers) == Classify(headers_lower_set(headers))

(***************************************************************************)
(* The row normalizer: the body of the row loop of main                    *)
(***************************************************************************)
\* (get_ci(row, ...) or "").strip()
Field(row, candidates) == Strip(get_ci(row, candidates))

\* lines 194-200: "keep", or the reason the date filter drops a row dated row_d
InWindow(row_d, from_d, to_d) ==
    IF from_d = None /\ to_d = None THEN "keep"
    ELSE IF row_d = None THEN "unparsed"
    ELSE IF from_d # None /\ DateLess(row_d, from_d) THEN "below"
    ELSE IF to_d # None /\ DateLess(to_d, row_d) THEN "above"
    ELSE "keep"

\* lines 192-200
DateDecision(row, from_d, to_d) ==
    InWindow(parse_date_str(Field(row, <<H_Date>>)), from_d, to_d)

Record(date_str, merchant, category, acct, orig_stmt, notes, amount) ==
    [Date |-> date_str, Merchant |-> merchant, Category |-> category, Account |-> acct,
     OriginalStatement |-> orig_stmt, Notes |-> notes, Amount |-> amount, Tags |-> <<>>]

\* a or b, for strings
OrElse(a, b) == IF a # <<>> THEN a ELSE b

\* lines 211-214 and 223-226: the sign flip
OutAmount(amt_raw) == IF IsNegative(amt_raw) THEN Abs(amt_raw) ELSE Neg(Abs(amt_raw))

\* lines 211-214 and 223-226: the category; portal_cat_raw is read for a Portal row only
OutCategory(fmt, amt_raw, portal_cat_raw) ==
    IF IsNegative(amt_raw) THEN CreditCardPayment
    ELSE IF fmt = "statement" THEN Uncategorized
    ELSE OrElse(portal_cat_raw, Uncategorized)

\* lines 203 and 217
Merchant(fmt, row) ==
    IF fmt = "statement" THEN Field(row, <<H_MerchantName>>) ELSE Field(row, PORTAL_DESC_KEYS)

\* lines 204 and 219
OrigStmt(fmt, row, merchant) ==
    IF fmt = "statement" THEN Field(row, <<H_MerchantCategoryDescription>>) ELSE merchant

\* lines 205-208 and 220
Notes(fmt, row) ==
    IF fmt = "statement"
    THEN JoinComma(NonEmpty(<<Field(row, <<H_MerchantCity>>),
                              Field(row, <<H_MerchantStateOrProvince>>),
                              Field(row, <<H_MerchantCountryCode>>)>>))
    ELSE <<>>

\* line 221: the literal after "or"
RogersMastercard == <<"R","o","g","e","r","s"," ","M","a","s","t","e","r","c","a","r","d">>

\* lines 209 and 221
Account(fmt, row) ==
    IF fmt = "statement" THEN CardPrefix \o last4(get_ci(row, <<H_CardNumber>>))
    ELSE OrElse(PORTAL_ACCOUNT_LABEL, RogersMastercard)

\* lines 228-237: the record appended, given the merchant and the cleaned amount
RecordOf(fmt, row, merchant, amt_raw) ==
    Record(Field(row, <<H_Date>>), merchant,
           OutCategory(fmt, amt_raw, Field(row, PORTAL_CAT_KEYS)),
           Account(fmt, row),
           OrElse(OrigStmt(fmt, row, merchant), merchant),
           Notes(fmt, row),
           FormatAmount(OutAmount(amt_raw)))

NormalizeWith(fmt, row, amt) ==
    [raised |-> amt.raised, rec |-> RecordOf(fmt, row, Merchant(fmt, row), amt.val)]

\* lines 202-237: the record of a row the date filter keeps; [raised |-> TRUE] when
\* clean_amount raises
NormalizeRow(fmt, row) == NormalizeWith(fmt, row, clean_amount(get_ci(row, <<H_Amount>>)))

\* AfterRow with the record put before the rows accumulated
AfterRow_Prepend(acc, why, n) ==
    IF why = "unparsed"
    THEN [acc EXCEPT !.file_parse_fail = @ + 1, !.file_filtered = @ + 1]
    ELSE IF why # "keep" THEN [acc EXCEPT !.file_filtered = @ + 1]
    ELSE IF n.raised THEN [acc EXCEPT !.raised = TRUE]
    ELSE [acc EXCEPT !.out_rows = <<n.rec>> \o @, !.file_written = @ + 1]

\* AfterRow with a row of unparseable date counted as unparsed but not as filtered
AfterRow_UnparsedNotFiltered(acc, why, n) ==
    IF why = "unparsed"
    THEN [acc EXCEPT !.file_parse_fail = @ + 1]
    ELSE IF why # "keep" THEN [acc EXCEPT !.file_filtered = @ + 1]
    ELSE IF n.raised THEN [acc EXCEPT !.raised = TRUE]
    ELSE [acc EXCEPT !.out_rows = Append(@, n.rec), !.file_written = @ + 1]

\* lines 194-238: what one row does to out_rows and the file's counters, given the
\* date filter's decision why and the row's normalization n
AfterRow(acc, why, n) ==
    IF why = "unparsed"
    THEN [acc EXCEPT !.file_parse_fail = @ + 1, !.file_filtered = @ + 1]
    ELSE IF why # "keep" THEN [acc EXCEPT !.file_filtered = @ + 1]
    ELSE IF n.raised THEN [acc EXCEPT !.raised = TRUE]
    ELSE [acc EXCEPT !.out_rows = Append(@, n.rec), !.file_written = @ + 1]

\* lines 191-238: the row loop over rows_in[i..]; acc holds out_rows and the file's
\* counters, and acc.raised once a row has raised (the loop ends there)
RECURSIVE RowLoop(_, _, _, _, _, _)
RowLoop(fmt, rows_in, i, from_d, to_d, acc) ==
    IF i > Len(rows_in) \/ acc.raised THEN acc
    ELSE RowLoop(fmt, rows_in, i + 1, from_d, to_d,
                 AfterRow(acc, DateDecision(rows_in[i], from_d, to_d),
                          NormalizeRow(fmt, rows_in[i])))

(***************************************************************************)
(* read_csv_detect.  An input file is [status, fieldnames, lines,          *)
(* read_fails]: whether the path exists ("ok", "missing"), its header row  *)
(* (<<>> when it has none), the cells of its data lines, and whether       *)
(* reading its data lines raises part-way (an undecodable byte, a          *)
(* malformed line, an I/O error).                                          *)
(***************************************************************************)
File(status, fieldnames, lines, read_fails) ==
    [status |-> status, fieldnames |-> fieldnames, lines |-> lines, read_fails |-> read_fails]

Skipped == [fmt |-> NoFormat, rows_in |-> <<>>]

\* lines 133-146, for a file that opens and has a header row
ReadAs(f, fmt) ==
    IF fmt = "statement"
    THEN IF \E i \in DOMAIN STMT_REQUIRED :
                Lower(STMT_REQUIRED[i]) \notin headers_lower_set(f.fieldnames)
         THEN Skipped
         ELSE IF f.read_fails THEN Skipped
         ELSE [fmt |-> "statement", rows_in |-> DictRows(f.fieldnames, f.lines)]
    ELSE IF fmt = "portal"
    THEN IF f.read_fails THEN Skipped
         ELSE [fmt |-> "portal", rows_in |-> DictRows(f.fieldnames, f.lines)]
    ELSE Skipped

read_csv_detect(f) ==
    IF f.status # "ok" THEN Skipped
    ELSE IF f.fieldnames = <<>> THEN Skipped
    ELSE ReadAs(f, detect_format(f.fieldnames))

(***************************************************************************)
(* main                                                                    *)
(***************************************************************************)
VARIABLES
    pc,                 \* where main is: "start", "loop", "done", or how it ended early
    args,               \* the command line: number of paths, --from-date, --to-date
    from_d, to_d,       \* the date window
    files,              \* the input files read so far, in order
    out_rows,
    total_read, total_written, total_filtered, total_parse_fail,
    reports,            \* the per-file lines printed: fmt and the file's counters
    output              \* the output file: whether it was opened, and the rows written

vars == <<pc, args, from_d, to_d, files, out_rows,
          total_read, total_written, total_filtered, total_parse_fail, reports, output>>

NotWritten == [opened |-> FALSE, rows |-> <<>>]

\* data lines read so far, over all the files
RECURSIVE LinesRead(_)
LinesRead(fs) == IF fs = <<>> THEN 0 ELSE Len(Head(fs).lines) + LinesRead(Tail(fs))

\* lines 158-181: the usage checks and the date window; today is datetime.now().date()
Start(today) ==
    /\ pc = "start"
    /\ LET from_given == args.from_date # None /\ args.from_date # <<>>
           to_given == args.to_date # None /\ args.to_date # <<>>
           fd == IF from_given THEN parse_date_str(args.from_date) ELSE None
           td == IF to_given THEN parse_date_str(args.to_date) ELSE None
       IN  IF args.paths < 2 \/ (from_given /\ fd = None) \/ (to_given /\ td = None)
           THEN /\ pc' = "usage_error"
                /\ UNCHANGED <<from_d, to_d>>
           ELSE /\ pc' = "loop"
                /\ from_d' = fd
                /\ to_d' = IF fd # None /\ td = None THEN today ELSE td
    /\ UNCHANGED <<args, files, out_rows, total_read, total_written, total_filtered,
                   total_parse_fail, reports, output>>

\* lines 185-246: the iteration, given what read_csv_detect returned (got) and what
\* the row loop made of it (acc)
FileLoopBody(got, acc) ==
    IF got.rows_in = <<>> \/ got.fmt = NoFormat
    THEN UNCHANGED <<pc, out_rows, total_read, total_written, total_filtered,
                     total_parse_fail, reports>>
    ELSE IF acc.raised
    THEN /\ pc' = "crashed"
         /\ out_rows' = acc.out_rows
         /\ UNCHANGED <<total_read, total_written, total_filtered, total_parse_fail, reports>>
    ELSE /\ pc' = pc
         /\ out_rows' = acc.out_rows
         /\ total_read' = total_read + Len(got.rows_in)
         /\ total_written' = total_written + acc.file_written
         /\ total_filtered' = total_filtered + acc.file_filtered
         /\ total_parse_fail' = total_parse_fail + acc.file_parse_fail
         /\ reports' = Append(reports,
                              [file |-> Len(files) + 1, fmt |-> got.fmt,
                               file_read |-> Len(got.rows_in),
                               file_written |-> acc.file_written,
                               file_filtered |-> acc.file_filtered,
                               file_parse_fail |-> acc.file_parse_fail])

FileLoop(got) ==
    FileLoopBody(got, RowLoop(got.fmt, got.rows_in, 1, from_d, to_d,
                              [out_rows |-> out_rows, file_written |-> 0, file_filtered |-> 0,
                               file_parse_fail |-> 0, raised |-> FALSE]))

\* line 183: the file loop has another path to take
MoreInputs == pc = "loop" /\ Len(files) < args.paths - 1

\* lines 183-246: one iteration of the file loop, on the next input path, which holds f
ProcessFile(f) ==
    /\ MoreInputs
    /\ files' = Append(files, f)
    /\ FileLoop(read_csv_detect(f))
    /\ UNCHANGED <<args, from_d, to_d, output>>

\* Finish without the early return of lines 248-250
Finish_AlwaysWrites ==
    /\ pc = "loop"
    /\ Len(files) = args.paths - 1
    /\ pc' = "done"
    /\ output' = [opened |-> TRUE, rows |-> out_rows]
    /\ UNCHANGED <<args, from_d, to_d, files, out_rows, total_read, total_written,
                   total_filtered, total_parse_fail, reports>>

\* lines 248-264: after the last input file, write out_rows unless there is none
Finish ==
    /\ pc = "loop"
    /\ Len(files) = args.paths - 1
    /\ pc' = "done"
    /\ output' = IF out_rows = <<>> THEN NotWritten ELSE [opened |-> TRUE, rows |-> out_rows]
    /\ UNCHANGED <<args, from_d, to_d, files, out_rows, total_read, total_written,
                   total_filtered, total_parse_fail, reports>>

(***************************************************************************)
(* The inputs of a run                                                     *)
(***************************************************************************)
\* the strings over chars of length at most n
StringsUpTo(chars, n) == UNION { [1..k -> chars] : k \in 0..n }

D_Apr30 == <<"2","0","2","5","-","0","4","-","3","0">>
D_May1 == <<"0","5","/","0","1","/","2","0","2","5">>
D_May2 == <<"M","a","y"," ","2",","," ","2","0","2","5">>
D_May1_ISO == <<"2","0","2","5","-","0","5","-","0","1">>
NotADate == <<"n","/","a">>
H_View == <<"V","i","e","w">>
CoffeeShop == <<"C","o","f","f","e","e"," ","S","h","o","p">>
Dining == <<"D","i","n","i","n","g">>
Refund == <<"R","e","f","u","n","d">>
Toronto == <<"T","o","r","o","n","t","o">>
ON == <<"O","N">>
CA == <<"C","A">>
Card1234 == <<"*","*","*","*","1","2","3","4">>

\* the header row of a Portal export
PORTAL_HEADERS == <<H_Date, H_TransactionDescription, H_TransactionCategory, H_Amount, H_View>>

\* one data line of a Statement export / of a Portal export
StatementLine(date, amount, card) ==
    <<date, amount, CoffeeShop, card, Dining, Toronto, ON, CA>>
PortalLine(date, desc, cat, amount) == <<date, desc, cat, amount, <<>> >>

\* --from-date and --to-date as given: absent, empty, blank, a date, not a date
FromArgs == {None, <<>>, D_May1_ISO, NotADate}
ToArgs == {None, D_May1, <<" ">>}
\* the dates the run may start on
Todays == { <<2025, 5, 1>>, <<2025, 5, 2>> }

\* the Date and Amount cells of the data lines of a run: a day before, on and after
\* 2025-05-01, a date that does not parse, and an amount float() rejects
RunCells ==
    { <<D_Apr30, <<"(","9",".","9","0",")">> >>,
      <<D_May1, <<"9",".","9","0">> >>,
      <<D_May2, <<"$","9">> >>,
      <<NotADate, <<"9"," ","C","R">> >>,
      <<D_May1, <<"9",".",".">> >> }

StatementLines == { StatementLine(c[1], c[2], Card1234) : c \in RunCells }
\* a Portal export's lines: one dated 2025-05-01 and one whose date does not parse
PortalCells == { c \in RunCells : c[2] \in { <<"9",".","9","0">>, <<"9"," ","C","R">> } }
PortalLines == { PortalLine(c[1], CoffeeShop, Refund, c[2]) : c \in PortalCells }

\* the files a run may find at its next input path, with at most n data lines
RunFiles(n) ==
    { File("missing", <<>>, <<>>, FALSE), File("ok", <<>>, <<>>, FALSE) }
    \cup { File("ok", <<H_Date, H_View>>, <<ln>>, FALSE) : ln \in {x \in { <<D_May1, <<>> >> } : n >= 1} }
    \cup { File("ok", STMT_REQUIRED, <<ln>>, TRUE) :
             ln \in {x \in { StatementLine(D_May1, <<"9">>, Card1234) } : n >= 1} }
    \cup { File("ok", STMT_REQUIRED, lines, FALSE) : lines \in StringsUpTo(StatementLines, n) }
    \cup { File("ok", PORTAL_HEADERS, lines, FALSE) : lines \in StringsUpTo(PortalLines, n) }

InitRun(argset) ==
    /\ pc = "start"
    /\ args \in argset
    /\ from_d = None
    /\ to_d = None
    /\ files = <<>>
    /\ out_rows = <<>>
    /\ total_read = 0
    /\ total_written = 0
    /\ total_filtered = 0
    /\ total_parse_fail = 0
    /\ reports = <<>>
    /\ output = NotWritten

Args(paths, from_date, to_date) == [paths |-> paths, from_date |-> from_date, to_date |-> to_date]

Init == InitRun({ Args(p, a, b) : p \in 0..(MaxFiles + 1), a \in FromArgs, b \in ToArgs })

Next ==
    \/ \E today \in Todays : Start(today)
    \/ MoreInputs /\ \E f \in RunFiles(MaxRows - LinesRead(files)) : ProcessFile(f)
    \/ Finish

Spec == Init /\ [][Next]_vars

(***************************************************************************)
(* The row normalizer on one row: a run on one input file of one data      *)
(* line, with no date window.                                              *)
(***************************************************************************)
AmountChars == {"0", "9", ".", "-", "(", ")", "C", "r", " ", "$"}
\* amounts as the exports write them, longer than MaxAmountLen
SampleAmounts ==
    { <<"4","5",".","0","0">>, <<"(","1","2","0",".","0","0",")">>, <<"3","0"," ","C","R">>,
      <<"-","4","5",".","0","0">>, <<"$","1",",","2","9","9",".","9","0">>, <<"0",".","0","0"," ","c","r">>, <<"9"," ","C","r">>, <<"1",".","2",".","3">> }
Amounts(n) == StringsUpTo(AmountChars, n) \cup SampleAmounts
CardChars == {"*", "1", "2", " "}


\* header rows of Portal exports with two description columns, in several casings
AliasHeaders ==
    { H_TransactionDescription, H_Description, H_Merchant, H_MerchantName,
      Lower(H_Description), <<" ">> \o H_Merchant }
AliasCells == { <<>>, CoffeeShop, <<" ">> \o Dining }

\* the one-line files the normalizer is run on: every Amount of at most amount_len
\* characters, every Card Number of at most card_len characters, every pair of
\* description columns
NormalizerFiles(amount_len, card_len) ==
    { File("ok", STMT_REQUIRED, << StatementLine(D_May1, a, Card1234) >>, FALSE) : a \in Amounts(amount_len) }
    \cup { File("ok", PORTAL_HEADERS, << PortalLine(D_May1, CoffeeShop, Refund, a) >>, FALSE) :
             a \in Amounts(amount_len) }
    \cup { File("ok", STMT_REQUIRED, << StatementLine(D_May1, a, c) >>, FALSE) :
             a \in { <<"9">>, <<"0">>, <<"(","9",")">> }, c \in StringsUpTo(CardChars, card_len) }
    \cup { File("ok", PORTAL_HEADERS, << PortalLine(D_May1, CoffeeShop, c, a) >>, FALSE) :
             a \in { <<"9">>, <<"-","9">> }, c \in { <<>>, CreditCardPayment } }
    \cup { File("ok", <<H_Date, H_Amount, h[1], h[2]>>, << <<D_May1, <<"9">>, c[1], c[2]>> >>, FALSE) :
             h \in { x \in AliasHeaders \X AliasHeaders : x[1] # x[2] },
             c \in AliasCells \X AliasCells }
    \cup { File("ok", <<H_Date, H_Amount, h>>, << <<D_May1, <<"9">> >> >>, FALSE) :
             h \in AliasHeaders }

InitOneFile == InitRun({ Args(2, None, None) })

NextNormalize ==
    \/ \E today \in Todays : Start(today)
    \/ MoreInputs /\ \E f \in NormalizerFiles(MaxAmountLen, MaxCardLen) : ProcessFile(f)

SpecNormalize == InitOneFile /\ [][NextNormalize]_vars

(***************************************************************************)
(* The format classifier on one header row: a run on one input file whose  *)
(* header row is any selection of HeaderPool, with one data line.          *)
(***************************************************************************)
HeaderPool ==
    STMT_REQUIRED \o <<H_Description, <<" ","D","A","T","E"," ">>, Lower(H_Amount), H_View>>

\* the headers of pool at the places picked, in the order of pool
RECURSIVE Select(_, _, _)
Select(pool, picked, i) ==
    IF i > Len(pool) THEN <<>>
    ELSE (IF i \in picked THEN <<pool[i]>> ELSE <<>>) \o Select(pool, picked, i + 1)

DetectFiles(pool) ==
    { File("ok", Select(pool, picked, 1), << [i \in 1..Cardinality(picked) |-> <<"9">>] >>, FALSE) :
        picked \in SUBSET DOMAIN pool }

NextDetect ==
    \/ \E today \in Todays : Start(today)
    \/ MoreInputs /\ \E f \in DetectFiles(HeaderPool) : ProcessFile(f)
    \/ Finish

SpecDetect == InitOneFile /\ [][NextDetect]_vars

(***************************************************************************)
(* What the claims speak of                                                *)
(***************************************************************************)
\* a file the run does not skip for its path or its header row
Recognized(f) ==
    /\ f.status = "ok"
    /\ f.fieldnames # <<>>
    /\ ~f.read_fails
    /\ detect_format(f.fieldnames) # NoFormat

\* the cell of line ln under the first header equal to h
CellOf(f, ln, h) == ln[CHOOSE i \in DOMAIN f.fieldnames : f.fieldnames[i] = h]

\* the rows of f the date window from..to keeps, as output records
RECURSIVE KeptRecords(_, _, _, _)
KeptRecords(fmt, rows, from, to) ==
    IF rows = <<>> THEN <<>>
    ELSE (IF DateDecision(Head(rows), from, to) = "keep"
          THEN << NormalizeRow(fmt, Head(rows)).rec >> ELSE <<>>)
         \o KeptRecords(fmt, Tail(rows), from, to)

\* the records of the kept rows of the recognized files of fs, file after file
RECURSIVE Concatenation(_, _, _)
Concatenation(fs, from, to) ==
    IF fs = <<>> THEN <<>>
    ELSE (IF Recognized(Head(fs))
          THEN KeptRecords(detect_format(Head(fs).fieldnames),
                           DictRows(Head(fs).fieldnames, Head(fs).lines), from, to)
          ELSE <<>>)
         \o Concatenation(Tail(fs), from, to)

\* the one file and the one record of a run of the normalizer or the classifier
TheFile == files[1]
TheLine == files[1].lines[1]
TheRecord == out_rows[1]
OneRecord == Len(files) = 1 /\ Len(out_rows) = 1
TagOf(reps) == IF reps = <<>> THEN NoFormat ELSE reps[1].fmt

\* a two-decimal amount string that denotes a number below zero
StrictlyNegative(amount) ==
    /\ amount[1] = "-"
    /\ \E i \in DOMAIN amount : IsDigit(amount[i]) /\ amount[i] # "0"

\* the four digits a card number ends in (blanks around it aside), <<>> if it does not
TrailingDigits(card) ==
    IF Len(Strip(card)) >= 4 /\ IsDigits(SubSeq(Strip(card), Len(Strip(card)) - 3, Len(Strip(card))))
    THEN SubSeq(Strip(card), Len(Strip(card)) - 3, Len(Strip(card)))
    ELSE <<>>

(***************************************************************************)
(* C1  Category is "Credit Card Payment" exactly when a negativity signal  *)
(* fired on the raw Amount (parentheses, leading minus, CR marker).        *)
(***************************************************************************)
\* C1: for every emitted record, Category = "Credit Card Payment" iff one of the three
\* negativity signals of the raw Amount fired.
C1_CategoryIffSignal ==
    OneRecord =>
        ((TheRecord.Category = CreditCardPayment)
            <=> AnySignal(AmountSignals(CellOf(TheFile, TheLine, H_Amount))))

(***************************************************************************)
(* C2  Normalizing a row never raises: whatever the Amount holds, the row  *)
(* is emitted.                                                             *)
(***************************************************************************)
\* C2: with no date filter, the run never aborts on a row and every data row of a
\* recognized file yields an output record.
C2_NormalizeNeverRaises ==
    Len(files) = 1 => pc # "crashed" /\ Len(out_rows) = 1

(***************************************************************************)
(* C3  detect_format: Statement when the eight required columns are there, *)
(* else Portal when Date, Amount and a description alias are, else None.   *)
(***************************************************************************)
\* C3: the tag of a header row is "statement" whenever its trimmed, lower-cased set
\* holds the eight Statement columns (also when it fits the Portal signature),
\* otherwise "portal" whenever it holds date, amount and a description alias,
\* otherwise None.
C3_DetectPriority ==
    Len(files) = 1 =>
        LET hs == { Lower(Strip(TheFile.fieldnames[i])) : i \in DOMAIN TheFile.fieldnames }
            stmt == \A i \in DOMAIN STMT_REQUIRED : Lower(STMT_REQUIRED[i]) \in hs
            portal == /\ Lower(H_Date) \in hs
                      /\ Lower(H_Amount) \in hs
                      /\ \E i \in DOMAIN PORTAL_DESC_KEYS : Lower(PORTAL_DESC_KEYS[i]) \in hs
        IN  TagOf(reports) = IF stmt THEN "statement" ELSE IF portal THEN "portal" ELSE NoFormat

\* a header row that fits both signatures, Date and Amount in another casing, tagged
\* "statement"
C3_Witness ==
    /\ Len(files) = 1
    /\ TagOf(reports) = "statement"
    /\ \A i \in DOMAIN TheFile.fieldnames : TheFile.fieldnames[i] \notin {H_Date, H_Amount}

(***************************************************************************)
(* C4  A row is accepted exactly when no bound is active or its date       *)
(* parses and lies in the inclusive window.                                *)
(***************************************************************************)
\* C4: at every point of the run, the records accepted so far are those of the rows
\* (of the recognized files read) that the inclusive date window keeps.
C4_AcceptedIffInWindow ==
    pc \in {"loop", "done", "crashed"} => out_rows = Concatenation(files, from_d, to_d)

(***************************************************************************)
(* C5  A Statement row with a non-negative amount and a card number ending *)
(* in four digits: Account is "Card ****" and the digits, Amount negative. *)
(***************************************************************************)
C5_Case ==
    /\ OneRecord
    /\ TagOf(reports) = "statement"
    /\ ~IsNegative(clean_amount(CellOf(TheFile, TheLine, H_Amount)).val)
    /\ TrailingDigits(CellOf(TheFile, TheLine, H_CardNumber)) # <<>>

\* C5 as claimed: Account is "Card ****" followed by the four digits, and Amount is
\* strictly negative, zero amounts included.
C5_StrictlyNegative ==
    C5_Case =>
        /\ TheRecord.Account = CardPrefix \o TrailingDigits(CellOf(TheFile, TheLine, H_CardNumber))
        /\ StrictlyNegative(TheRecord.Amount)

\* C5 as amended: Account is "Card ****" followed by the four digits; Amount carries a
\* minus sign, and is strictly negative whenever the cleaned amount is at least one cent.
C5_NeverPositive ==
    C5_Case =>
        /\ TheRecord.Account = CardPrefix \o TrailingDigits(CellOf(TheFile, TheLine, H_CardNumber))
        /\ TheRecord.Amount[1] = "-"
        /\ LET v == clean_amount(CellOf(TheFile, TheLine, H_Amount)).val
           IN  v.num * 100 >= Pow10(v.scale) => StrictlyNegative(TheRecord.Amount)

\* a zero amount on a card number with blanks after its digits: Amount is "-0.00"
C5_Witness ==
    /\ C5_Case
    /\ TheRecord.Amount = <<"-", "0", ".", "0", "0">>
    /\ CellOf(TheFile, TheLine, H_CardNumber) = <<"1", "2", "1", "2", " ">>
    /\ TheRecord.Account = CardPrefix \o <<"1", "2", "1", "2">>

(***************************************************************************)
(* C6  Portal Merchant is the trimmed value of the first description alias *)
(* whose column, matched in any casing, holds a non-empty value.           *)
(***************************************************************************)
\* the columns of the file whose header is alias a in some casing, with a non-empty cell
AliasColumns(f, ln, a) ==
    { i \in DOMAIN f.fieldnames :
        NormHeader(f.fieldnames[i]) = Lower(a) /\ i <= Len(ln) /\ ln[i] # <<>> }

\* the values the claim allows for Merchant: of the first alias with such a column
RECURSIVE FirstAliasValues(_, _, _)
FirstAliasValues(f, ln, aliases) ==
    IF aliases = <<>> THEN { <<>> }
    ELSE IF AliasColumns(f, ln, Head(aliases)) # {}
    THEN { Strip(ln[i]) : i \in AliasColumns(f, ln, Head(aliases)) }
    ELSE FirstAliasValues(f, ln, Tail(aliases))

\* C6: for every Portal record, Merchant (and Original Statement) is the trimmed value
\* of the first alias, in the fixed order, whose column holds a non-empty value.
C6_FirstNonEmptyAlias ==
    OneRecord /\ TagOf(reports) = "portal" =>
        /\ TheRecord.Merchant \in FirstAliasValues(TheFile, TheLine, PORTAL_DESC_KEYS)
        /\ TheRecord.OriginalStatement = TheRecord.Merchant

(***************************************************************************)
(* C7  The output is the concatenation, in file order then row order, of   *)
(* the records of the accepted rows; a skipped file adds nothing, is not   *)
(* fatal and does not stop the files after it.                             *)
(***************************************************************************)
\* C7: between files out_rows is the concatenation of the accepted rows' records of
\* the recognized files read so far; a run ends only after every input path was
\* taken, and then what it writes is that concatenation; a run ends early only on a
\* row of a recognized file.
C7_OutputIsConcatenation ==
    /\ pc \in {"loop", "done"} => out_rows = Concatenation(files, from_d, to_d)
    /\ pc = "done" => Len(files) = args.paths - 1
    /\ output.opened => output.rows = Concatenation(files, from_d, to_d)
    /\ pc = "crashed" => Recognized(files[Len(files)])

\* a skipped file, then a file of two accepted rows with different records, written
C7_Witness ==
    /\ pc = "done"
    /\ Len(files) = 2
    /\ ~Recognized(files[1])
    /\ Len(output.rows) = 2
    /\ output.rows[1] # output.rows[2]

(***************************************************************************)
(* C8  With no accepted row the output file is never opened, and the run   *)
(* ends normally.                                                          *)
(***************************************************************************)
\* a row of the last file read passed the date filter
LastFileHasKeptRow ==
    /\ files # <<>>
    /\ Recognized(files[Len(files)])
    /\ \E i \in DOMAIN files[Len(files)].lines :
          DateDecision(DictRow(files[Len(files)].fieldnames, files[Len(files)].lines[i]),
                       from_d, to_d) = "keep"

\* C8: the output file is opened only at the end of a run that accepted a row; a run
\* whose files were all skipped, empty or filtered out does not end with an error.
C8_NoRowsNoOutput ==
    /\ output.opened => pc = "done" /\ out_rows # <<>>
    /\ pc = "usage_error" => files = <<>>
    /\ pc = "crashed" => LastFileHasKeptRow

\* a run that read rows, filtered them all out, and ended without opening the output
C8_Witness ==
    /\ pc = "done"
    /\ total_read > 0
    /\ total_filtered = total_read
    /\ ~output.opened
    /\ ~output.opened

(***************************************************************************)
(* C9  Fewer than two paths, or a supplied bound that does not parse, ends *)
(* the run before any file I/O.                                            *)
(***************************************************************************)
\* C9: when fewer than two paths are given, or a supplied --from-date / --to-date
\* (any supplied string) does not parse, no input file is read, the output file is
\* not opened, and the run does not get past the usage checks.
C9_BadInvocationIsFatal ==
    (\/ args.paths < 2
     \/ args.from_date # None /\ parse_date_str(args.from_date) = None
     \/ args.to_date # None /\ parse_date_str(args.to_date) = None)
    => pc \in {"start", "usage_error"} /\ files = <<>> /\ ~output.opened

(***************************************************************************)
(* C10  Counter conservation                                               *)
(***************************************************************************)
RECURSIVE SumOf(_, _)
SumOf(reps, field) == IF reps = <<>> THEN 0 ELSE Head(reps)[field] + SumOf(Tail(reps), field)

\* the data lines of f whose Date does not parse
UnparsedLines(f) ==
    { i \in DOMAIN f.lines : parse_date_str(Strip(CellOf(f, f.lines[i], H_Date))) = None }

\* C10: between files, read = written + filtered, unparsed <= filtered and written is
\* the number of records accumulated, for the totals and for every file reported; a
\* file's unparsed counter counts its rows with an unparseable date while a filter is
\* active; with no filter, filtered and unparsed are 0; the totals are the sums over
\* the files reported, which are the recognized files with data rows.
C10_CounterConservation ==
    pc \in {"loop", "done"} =>
        /\ total_read = total_written + total_filtered
        /\ total_parse_fail <= total_filtered
        /\ total_written = Len(out_rows)
        /\ \A i \in DOMAIN reports :
              /\ reports[i].file_read = reports[i].file_written + reports[i].file_filtered
              /\ reports[i].file_parse_fail <= reports[i].file_filtered
              /\ reports[i].file_read = Len(files[reports[i].file].lines)
              /\ reports[i].file_parse_fail =
                    IF from_d = None /\ to_d = None THEN 0
                    ELSE Cardinality(UnparsedLines(files[reports[i].file]))
              /\ (from_d = None /\ to_d = None => reports[i].file_filtered = 0)
        /\ total_read = SumOf(reports, "file_read")
        /\ total_written = SumOf(reports, "file_written")
        /\ total_filtered = SumOf(reports, "file_filtered")
        /\ total_parse_fail = SumOf(reports, "file_parse_fail")
        /\ { reports[i].file : i \in DOMAIN reports }
              = { j \in DOMAIN files : Recognized(files[j]) /\ files[j].lines # <<>> }

\* after a skipped file and a file with a written row and a row dropped for its date
C10_Witness ==
    /\ pc = "loop"
    /\ Len(files) = 2
    /\ ~Recognized(files[1])
    /\ total_written = 1
    /\ total_parse_fail = 1

====
